---------------------------- MODULE Spec2Model ----------------------------
(***************************************************************************)
(* Model of src/main.py: the three verification endpoints of the gateway   *)
(*   POST /api/verify-image  (verify_image_with_reality_defender)          *)
(*   POST /api/verify-text   (verify_text_disinfo)                         *)
(*   POST /api/verify-link   (verify_link, with _extract_youtube_video_id) *)
(* One request is in flight at a time (requests share no mutable state);   *)
(* every action is one segment of a handler between two suspension points  *)
(* (the provider round trips), with the provider's answer as its input.    *)
(*                                                                         *)
(* Python strings are sequences of one-character strings, and every Python *)
(* value is a tagged record, so that json.loads, str.strip, urlparse and   *)
(* parse_qs are computed and not assumed.                                  *)
(***************************************************************************)
EXTENDS Integers, Sequences, FiniteSets, TLC

(***************************************************************************)
(* Python values                                                           *)
(***************************************************************************)
PyNone == [t |-> "none"]
PyStr(cs) == [t |-> "str", s |-> cs]
PyInt(n) == [t |-> "int", n |-> n]
PyList(xs) == [t |-> "list", items |-> xs]
PyDict(f) == [t |-> "dict", fields |-> f]

EmptyMap == [k \in {} |-> PyNone]

\* bool(v): the truth value Python gives v in `if v`, `not v`, `a or b`
Truthy(v) ==
    CASE v.t = "none" -> FALSE
      [] v.t = "str" -> v.s # <<>>
      [] v.t = "int" -> v.n # 0
      [] v.t = "list" -> v.items # <<>>
      [] v.t = "dict" -> DOMAIN v.fields # {}

\* a or b
PyOr(a, b) == IF Truthy(a) THEN a ELSE b

(***************************************************************************)
(* Strings                                                                 *)
(***************************************************************************)
Whitespace == {" ", "\t", "\n", "\r"}

StartsWith(s, p) == Len(s) >= Len(p) /\ SubSeq(s, 1, Len(p)) = p

\* Contains(s, p): p in s, for two str
Contains(s, p) == \E i \in 1..(Len(s) - Len(p) + 1) : SubSeq(s, i, i + Len(p) - 1) = p

\* the least index >= i of s holding a character of cs, or Len(s)+1
RECURSIVE FindAny(_, _, _)
FindAny(s, cs, i) ==
    IF i > Len(s) THEN Len(s) + 1
    ELSE IF s[i] \in cs THEN i ELSE FindAny(s, cs, i + 1)

\* the least index >= i of s holding a character outside cs, or Len(s)+1
RECURSIVE SkipAll(_, _, _)
SkipAll(s, cs, i) ==
    IF i > Len(s) THEN Len(s) + 1
    ELSE IF s[i] \notin cs THEN i ELSE SkipAll(s, cs, i + 1)

\* the greatest index <= i of s holding a character outside cs, or 0
RECURSIVE SkipAllBack(_, _, _)
SkipAllBack(s, cs, i) ==
    IF i < 1 THEN 0
    ELSE IF s[i] \notin cs THEN i ELSE SkipAllBack(s, cs, i - 1)

\* s.lstrip(cs)
LStrip(s, cs) == SubSeq(s, SkipAll(s, cs, 1), Len(s))

\* s.strip()
Strip(s) ==
    LET a == SkipAll(s, Whitespace, 1)
        b == SkipAllBack(s, Whitespace, Len(s))
    IN IF a > b THEN <<>> ELSE SubSeq(s, a, b)

\* s.split(c) for a one-character separator: always at least one piece
RECURSIVE Split(_, _)
Split(s, c) ==
    LET i == FindAny(s, {c}, 1)
    IN IF i > Len(s) THEN <<s>>
       ELSE <<SubSeq(s, 1, i - 1)>> \o Split(SubSeq(s, i + 1, Len(s)), c)

UpperToLower ==
    [c \in {"A","B","C","D","E","F","G","H","I","J","K","L","M",
            "N","O","P","Q","R","S","T","U","V","W","X","Y","Z"} |->
        CASE c = "A" -> "a" [] c = "B" -> "b" [] c = "C" -> "c" [] c = "D" -> "d"
          [] c = "E" -> "e" [] c = "F" -> "f" [] c = "G" -> "g" [] c = "H" -> "h"
          [] c = "I" -> "i" [] c = "J" -> "j" [] c = "K" -> "k" [] c = "L" -> "l"
          [] c = "M" -> "m" [] c = "N" -> "n" [] c = "O" -> "o" [] c = "P" -> "p"
          [] c = "Q" -> "q" [] c = "R" -> "r" [] c = "S" -> "s" [] c = "T" -> "t"
          [] c = "U" -> "u" [] c = "V" -> "v" [] c = "W" -> "w" [] c = "X" -> "x"
          [] c = "Y" -> "y" [] c = "Z" -> "z"]

\* s.lower()
Lower(s) == [i \in 1..Len(s) |-> IF s[i] \in DOMAIN UpperToLower THEN UpperToLower[s[i]] ELSE s[i]]

(***************************************************************************)
(* json.loads: objects, arrays, strings without escapes, non-negative      *)
(* integers and null, with optional whitespace.  A result is               *)
(* [ok, val, pos]: pos is the index after the value.                       *)
(***************************************************************************)
Digits == {"0","1","2","3","4","5","6","7","8","9"}

DigitVal(c) ==
    CASE c = "0" -> 0 [] c = "1" -> 1 [] c = "2" -> 2 [] c = "3" -> 3 [] c = "4" -> 4
      [] c = "5" -> 5 [] c = "6" -> 6 [] c = "7" -> 7 [] c = "8" -> 8 [] c = "9" -> 9

JsonFail == [ok |-> FALSE, val |-> PyNone, pos |-> 0]
JsonOk(v, p) == [ok |-> TRUE, val |-> v, pos |-> p]

RECURSIVE DigitsValue(_, _, _)
DigitsValue(s, i, j) ==
    IF j < i THEN 0 ELSE 10 * DigitsValue(s, i, j - 1) + DigitVal(s[j])

\* a string literal opening at s[i] = '"'
JsonString(s, i) ==
    LET j == FindAny(s, {"\""}, i + 1)
    IN IF j > Len(s) THEN JsonFail ELSE JsonOk(PyStr(SubSeq(s, i + 1, j - 1)), j + 1)

\* an integer starting at the digit s[i]; a leading zero ends the number
JsonNumber(s, i) ==
    LET j == IF s[i] = "0" THEN i + 1 ELSE SkipAll(s, Digits, i)
    IN JsonOk(PyInt(DigitsValue(s, i, j - 1)), j)

RECURSIVE JsonValue(_, _), JsonElements(_, _, _), JsonMembers(_, _, _)

\* the elements of an array after '[' or ',', acc the ones parsed so far
JsonElements(s, i, acc) ==
    LET r == JsonValue(s, i)
    IN IF ~r.ok THEN JsonFail
       ELSE LET j == SkipAll(s, Whitespace, r.pos)
            IN IF j > Len(s) THEN JsonFail
               ELSE IF s[j] = "," THEN JsonElements(s, j + 1, Append(acc, r.val))
               ELSE IF s[j] = "]" THEN JsonOk(PyList(Append(acc, r.val)), j + 1)
               ELSE JsonFail

\* the members of an object after '{' or ',', acc the ones parsed so far;
\* a repeated name keeps its last value
JsonMembers(s, i, acc) ==
    LET k == SkipAll(s, Whitespace, i)
    IN IF k > Len(s) \/ s[k] # "\"" THEN JsonFail
       ELSE LET name == JsonString(s, k)
            IN IF ~name.ok THEN JsonFail
               ELSE LET c == SkipAll(s, Whitespace, name.pos)
                    IN IF c > Len(s) \/ s[c] # ":" THEN JsonFail
                       ELSE LET r == JsonValue(s, c + 1)
                            IN IF ~r.ok THEN JsonFail
                               ELSE LET j == SkipAll(s, Whitespace, r.pos)
                                        m == (name.val.s :> r.val) @@ acc
                                    IN IF j > Len(s) THEN JsonFail
                                       ELSE IF s[j] = "," THEN JsonMembers(s, j + 1, m)
                                       ELSE IF s[j] = "}" THEN JsonOk(PyDict(m), j + 1)
                                       ELSE JsonFail

JsonValue(s, i) ==
    LET j == SkipAll(s, Whitespace, i)
    IN IF j > Len(s) THEN JsonFail
       ELSE IF s[j] = "{" THEN
            LET k == SkipAll(s, Whitespace, j + 1)
            IN IF k <= Len(s) /\ s[k] = "}" THEN JsonOk(PyDict(EmptyMap), k + 1)
               ELSE JsonMembers(s, j + 1, EmptyMap)
       ELSE IF s[j] = "[" THEN
            LET k == SkipAll(s, Whitespace, j + 1)
            IN IF k <= Len(s) /\ s[k] = "]" THEN JsonOk(PyList(<<>>), k + 1)
               ELSE JsonElements(s, j + 1, <<>>)
       ELSE IF s[j] = "\"" THEN JsonString(s, j)
       ELSE IF s[j] \in Digits THEN JsonNumber(s, j)
       ELSE IF j + 3 <= Len(s) /\ SubSeq(s, j, j + 3) = <<"n","u","l","l">> THEN JsonOk(PyNone, j + 4)
       ELSE JsonFail

\* json.loads(s) for a str s: ok = FALSE is json.JSONDecodeError
json_loads(s) ==
    LET r == JsonValue(s, 1)
    IN IF r.ok /\ SkipAll(s, Whitespace, r.pos) > Len(s) THEN r ELSE JsonFail

(***************************************************************************)
(* urllib.parse.urlparse and parse_qs, on ASCII input without '%' escapes  *)
(***************************************************************************)
SchemeChars ==
    {"a","b","c","d","e","f","g","h","i","j","k","l","m",
     "n","o","p","q","r","s","t","u","v","w","x","y","z"}
    \cup DOMAIN UpperToLower \cup Digits \cup {"+", "-", "."}

Letters == (SchemeChars \ Digits) \ {"+", "-", "."}

\* the schemes of urllib.parse.uses_params that the inputs can carry
UsesParams == {<<>>, <<"h","t","t","p">>, <<"h","t","t","p","s">>, <<"f","t","p">>}

\* the index of the last c in s, or 0
RECURSIVE RFind(_, _, _)
RFind(s, c, i) == IF i < 1 THEN 0 ELSE IF s[i] = c THEN i ELSE RFind(s, c, i - 1)

\* urlsplit, the scheme: [scheme, rest]
SplitScheme(u, colon) ==
    IF /\ colon <= Len(u) /\ colon > 1 /\ u[1] \in Letters
       /\ \A k \in 1..(colon - 1) : u[k] \in SchemeChars
    THEN [scheme |-> Lower(SubSeq(u, 1, colon - 1)), rest |-> SubSeq(u, colon + 1, Len(u))]
    ELSE [scheme |-> <<>>, rest |-> u]

\* urlsplit, _splitnetloc(url, 2) when url[:2] == '//': [netloc, rest]
SplitNetloc(url, delim) ==
    IF StartsWith(url, <<"/", "/">>)
    THEN [netloc |-> SubSeq(url, 3, delim - 1), rest |-> SubSeq(url, delim, Len(url))]
    ELSE [netloc |-> <<>>, rest |-> url]

\* urlsplit: "Invalid IPv6 URL" when only one of '[' and ']' is in netloc
InvalidIPv6(netloc) ==
    (\E k \in 1..Len(netloc) : netloc[k] = "[") # (\E k \in 1..Len(netloc) : netloc[k] = "]")

\* url.split(c, 1) when c is in url, at = url.find(c): [head, tail]
SplitOnce(url, at) == [head |-> SubSeq(url, 1, at - 1), tail |-> SubSeq(url, at + 1, Len(url))]

\* urlparse: _splitparams(url) when the scheme uses params and ';' is in
\* the last path segment, semi its index: [head, tail]
SplitParams(scheme, url, semi) ==
    IF scheme \in UsesParams /\ semi <= Len(url) THEN SplitOnce(url, semi)
    ELSE [head |-> url, tail |-> <<>>]

UrlParsed(scheme, n, f, q, p) ==
    [raised |-> InvalidIPv6(n.netloc), scheme |-> scheme, netloc |-> n.netloc,
     path |-> p.head, params |-> p.tail, query |-> q.tail, fragment |-> f.tail]

UrlAfterQuery(scheme, n, f, q) ==
    UrlParsed(scheme, n, f, q,
              SplitParams(scheme, q.head, FindAny(q.head, {";"}, RFind(q.head, "/", Len(q.head)) + 1)))

UrlAfterFragment(scheme, n, f) ==
    UrlAfterQuery(scheme, n, f, SplitOnce(f.head, FindAny(f.head, {"?"}, 1)))

UrlAfterNetloc(scheme, n) ==
    UrlAfterFragment(scheme, n, SplitOnce(n.rest, FindAny(n.rest, {"#"}, 1)))

UrlAfterScheme(a) == UrlAfterNetloc(a.scheme, SplitNetloc(a.rest, FindAny(a.rest, {"/", "?", "#"}, 3)))

\* urlparse(u): [raised, scheme, netloc, path, params, query, fragment];
\* raised is the ValueError of urlsplit
urlparse(u) == UrlAfterScheme(SplitScheme(u, FindAny(u, {":"}, 1)))

\* unquote(s.replace('+', ' ')) on a string without '%'
UnquotePlus(s) == [i \in 1..Len(s) |-> IF s[i] = "+" THEN " " ELSE s[i]]

\* parse_qsl(qs): the (name, value) pairs in order; a piece without '=' or
\* with an empty value is dropped (keep_blank_values=False)
QslPair(nv, eq) ==
    IF eq <= Len(nv) /\ eq < Len(nv)
    THEN << <<UnquotePlus(SubSeq(nv, 1, eq - 1)), UnquotePlus(SubSeq(nv, eq + 1, Len(nv)))>> >>
    ELSE <<>>

RECURSIVE QslOfPieces(_)
QslOfPieces(pieces) ==
    IF pieces = <<>> THEN <<>>
    ELSE QslPair(Head(pieces), FindAny(Head(pieces), {"="}, 1)) \o QslOfPieces(Tail(pieces))

parse_qsl(qs) == QslOfPieces(Split(qs, "&"))

\* the first value of name among pairs, or None
FirstValue(pairs, name, hits) ==
    IF hits = {} THEN PyNone
    ELSE PyStr(pairs[CHOOSE k \in hits : \A m \in hits : k <= m][2])

FirstOf(pairs, name) == FirstValue(pairs, name, {k \in 1..Len(pairs) : pairs[k][1] = name})

\* parse_qs(qs).get(name, [None])[0]
FirstQueryValue(qs, name) == FirstOf(parse_qsl(qs), name)

(***************************************************************************)
(* verify_link: _extract_youtube_video_id                                  *)
(***************************************************************************)
S_youtube_com == <<"y","o","u","t","u","b","e",".","c","o","m">>
S_www_youtube_com == <<"w","w","w",".">> \o S_youtube_com
S_m_youtube_com == <<"m",".">> \o S_youtube_com
S_youtu_be == <<"y","o","u","t","u",".","b","e">>
S_watch == <<"/","w","a","t","c","h">>
S_shorts == <<"/","s","h","o","r","t","s","/">>

YouTubeHosts == {S_www_youtube_com, S_youtube_com, S_m_youtube_com}

\* parts[2] if len(parts) > 2 else None
ThirdPart(parts) == IF Len(parts) > 2 THEN PyStr(parts[3]) ELSE PyNone

\* the body of the try block once urlparse has returned parsed, host its
\* lowered netloc
video_id_of(parsed, host) ==
    IF host \in YouTubeHosts /\ StartsWith(parsed.path, S_watch)
    THEN PyOr(FirstQueryValue(parsed.query, <<"v">>), PyNone)
    ELSE IF host \in YouTubeHosts /\ StartsWith(parsed.path, S_shorts)
    THEN ThirdPart(Split(parsed.path, "/"))
    ELSE IF host = S_youtu_be
    THEN PyOr(PyStr(Split(LStrip(parsed.path, {"/"}), "/")[1]), PyNone)
    ELSE PyNone

\* except Exception: return None
video_id_or_none(parsed) ==
    IF parsed.raised THEN PyNone ELSE video_id_of(parsed, Lower(parsed.netloc))

\* _extract_youtube_video_id(u): a PyStr (possibly empty) or PyNone
extract_youtube_video_id(u) == video_id_or_none(urlparse(u))

(***************************************************************************)
(* What a handler ends with, and what a Python expression evaluates to     *)
(***************************************************************************)
\* raise HTTPException(status_code=status, detail=msg + key + e)
HTTPException(status, msg, key, e) ==
    [kind |-> "error", status |-> status, detail |-> [msg |-> msg, key |-> key, e |-> e]]

\* return body
Return(body) == [kind |-> "ok", body |-> body]

\* an exception that is not an HTTPException, of class e
Raise(e) == [kind |-> "raise", e |-> e]

\* an expression's value
Value(v) == [kind |-> "value", val |-> v]

NoResult == [kind |-> "none"]

\* d.get(k, default) on a dict d with string keys
Get(d, k, default) == IF k \in DOMAIN d.fields THEN d.fields[k] ELSE default

(***************************************************************************)
(* The verdict schema check of verify_text_disinfo and verify_link         *)
(***************************************************************************)
K_decision == <<"d","e","c","i","s","i","o","n">>
K_summary == <<"s","u","m","m","a","r","y">>
K_ai_explanatation == <<"a","i","_","e","x","p","l","a","n","a","t","a","t","i","o","n">>
K_sources == <<"s","o","u","r","c","e","s">>
S_tak == <<"t","a","k">>
S_nie == <<"n","i","e">>

RequiredKeys == <<K_decision, K_summary, K_ai_explanatation, K_sources>>

MaxSources == 10

\* key in parsed, for a parsed that is a dict, a list or a str
KeyIn(key, parsed) ==
    CASE parsed.t = "dict" -> key \in DOMAIN parsed.fields
      [] parsed.t = "list" -> \E n \in 1..Len(parsed.items) : parsed.items[n] = PyStr(key)
      [] parsed.t = "str" -> Contains(parsed.s, key)

\* a faulty variant: a list of exactly 10 sources is refused
TooManySources_mut(sources) == Len(sources.items) >= MaxSources

\* len(sources) > 10
TooManySources(sources) == Len(sources.items) > MaxSources

\* the for loop over the required keys, then the two ifs, then return parsed
check_schema(parsed) ==
    IF parsed.t \in {"int", "none"} THEN Raise("TypeError")
    ELSE LET missing == {n \in 1..Len(RequiredKeys) : ~KeyIn(RequiredKeys[n], parsed)}
         IN IF missing # {}
            THEN HTTPException(502, "Brak wymaganego pola: ",
                               RequiredKeys[CHOOSE n \in missing : \A m \in missing : n <= m], "")
            ELSE IF parsed.t # "dict" THEN Raise("AttributeError")
            ELSE IF parsed.fields[K_decision] \notin {PyStr(S_tak), PyStr(S_nie)}
                 THEN HTTPException(502, "Pole 'decision' musi byc 'tak' lub 'nie'", <<>>, "")
            ELSE IF parsed.fields[K_sources].t # "list" \/ TooManySources(parsed.fields[K_sources])
                 THEN HTTPException(502, "Pole 'sources' musi byc lista (max 10)", <<>>, "")
            ELSE Return(parsed)

\* data.get("choices", [{}])[0].get("message", {}).get("content", "")
message_content(data) ==
    IF data.t # "dict" THEN Raise("AttributeError")
    ELSE LET choices == Get(data, "choices", PyList(<<PyDict(EmptyMap)>>))
         IN IF choices.t \in {"none", "int"} THEN Raise("TypeError")
            ELSE IF choices.t = "dict" THEN Raise("KeyError")
            ELSE IF choices.t = "list" /\ choices.items = <<>> THEN Raise("IndexError")
            ELSE IF choices.t = "str" /\ choices.s = <<>> THEN Raise("IndexError")
            ELSE LET first == IF choices.t = "list" THEN choices.items[1]
                              ELSE PyStr(<<choices.s[1]>>)
                 IN IF first.t # "dict" THEN Raise("AttributeError")
                    ELSE LET message == Get(first, "message", PyDict(EmptyMap))
                         IN IF message.t # "dict" THEN Raise("AttributeError")
                            ELSE Value(Get(message, "content", PyStr(<<>>)))

\* a faulty variant: status 400 is not taken for a provider error
IsProviderError_mut(status_code) == status_code > 400

\* if resp.status_code >= 400
IsProviderError(status_code) == status_code >= 400

\* except Exception as e, around the inference stage
analysis_error(e) == HTTPException(502, "Blad podczas analizy: ", <<>>, e)

\* the end of the try block: v is what check_schema gave
after_schema(v) == IF v.kind = "raise" THEN analysis_error(v.e) ELSE v

(***************************************************************************)
(* verify_text_disinfo after the POST to the inference provider: o is the  *)
(* provider's answer, a response or a transport exception                  *)
(***************************************************************************)
\* r is json.loads(content)
verify_text_after_loads(r) ==
    IF ~r.ok THEN HTTPException(502, "Model zwrocil niepoprawny JSON", <<>>, "")
    ELSE after_schema(check_schema(r.val))

\* c is the message content, or what reading it raised
verify_text_after_content(c) ==
    IF c.kind = "raise" THEN analysis_error(c.e)
    ELSE IF ~Truthy(c.val) THEN HTTPException(502, "Pusta odpowiedz modelu xAI", <<>>, "")
    ELSE IF c.val.t # "str" THEN analysis_error("TypeError")
    ELSE verify_text_after_loads(json_loads(c.val.s))

verify_text_after_post(o) ==
    IF o.t = "exc" THEN analysis_error(o.e)
    ELSE IF IsProviderError(o.status_code)
    THEN HTTPException(o.status_code, "xAI error: ", <<>>, "")
    ELSE IF ~o.is_json THEN analysis_error("JSONDecodeError")
    ELSE verify_text_after_content(message_content(o.data))

(***************************************************************************)
(* verify_link after the POST to the inference provider                    *)
(***************************************************************************)
\* r is json.loads(content_json)
verify_link_after_loads(r) ==
    IF ~r.ok THEN analysis_error("JSONDecodeError")
    ELSE after_schema(check_schema(r.val))

\* c is the message content, or what reading it raised
verify_link_after_content(c) ==
    IF c.kind = "raise" THEN analysis_error(c.e)
    ELSE IF ~Truthy(c.val) THEN HTTPException(502, "Pusta odpowiedz modelu xAI", <<>>, "")
    ELSE IF c.val.t # "str" THEN analysis_error("TypeError")
    ELSE verify_link_after_loads(json_loads(c.val.s))

verify_link_after_post(o) ==
    IF o.t = "exc" THEN analysis_error(o.e)
    ELSE IF IsProviderError(o.status_code)
    THEN HTTPException(o.status_code, "xAI error: ", <<>>, "")
    ELSE IF ~o.is_json THEN analysis_error("JSONDecodeError")
    ELSE verify_link_after_content(message_content(o.data))

(***************************************************************************)
(* verify_link: the extraction stage                                       *)
(***************************************************************************)
\* the messages dict of the except SupadataError branch
SupadataMessages ==
    (400 :> "Invalid Request: zadanie jest nieprawidlowe lub blednie sformatowane")
    @@ (401 :> "Unauthorized: sprawdz klucz API")
    @@ (402 :> "Upgrade Required: funkcja niedostepna w Twoim planie")
    @@ (404 :> "Not Found: nie znaleziono zasobu")
    @@ (429 :> "Limit Exceeded: przekroczono dozwolony limit")
    @@ (206 :> "Transcript Unavailable: brak transkrypcji dla tego filmu")
    @@ (500 :> "Internal Error: blad wewnetrzny")

\* a faulty variant: every provider error answers 502
SupadataStatus_mut(code) == 502

\* int(code or 502)
SupadataStatus(code) == IF Truthy(code) THEN code.n ELSE 502

\* except SupadataError as e: e carries the attributes status and status_code
\* (PyNone when the attribute is absent)
supadata_http(code) ==
    IF code.t = "int" /\ code.n \in DOMAIN SupadataMessages
    THEN HTTPException(SupadataStatus(code), SupadataMessages[code.n], <<>>, "")
    ELSE HTTPException(SupadataStatus(code), "Supadata error: ", <<>>, "SupadataError")

supadata_error(e) == supadata_http(PyOr(e.status, e.status_code))

\* a faulty variant: the content is not trimmed before the test
ContentIsEmpty_mut(content) == content = <<>>

\* if not content.strip()
ContentIsEmpty(content) == Strip(content) = <<>>

\* a faulty variant: the empty identifier counts as an identifier
HasVideoId_mut(video_id) == video_id.t # "none"

\* if video_id
HasVideoId(video_id) == Truthy(video_id)

\* the provider call the try block makes for url, video_id its id
extraction_call_for(url, video_id) ==
    IF HasVideoId(video_id)
    THEN [svc |-> "supadata.youtube.transcript", arg |-> video_id]
    ELSE [svc |-> "supadata.web.scrape", arg |-> PyStr(url)]

extraction_call(url) == extraction_call_for(url, extract_youtube_video_id(url))

\* if not content.strip(): raise 422, else go on with content
checked_content(content) ==
    IF ContentIsEmpty(content.s)
    THEN HTTPException(422, "Nie udalo sie wydobyc tresci z podanego URL.", <<>>, "")
    ELSE Value(content)

\* a faulty variant: an exception of the extraction call is swallowed and
\* the analysis goes on with a placeholder text
verify_link_after_extract_mut(o) ==
    IF o.t = "SupadataError" THEN supadata_error(o)
    ELSE IF o.t = "exc" THEN Value(PyStr(<<"?">>))
    ELSE checked_content(PyOr(o.content, PyStr(<<>>)))

\* the rest of the try block with the provider's answer o: the text to
\* analyse as a Value, or the HTTPException the stage ends with
verify_link_after_extract(o) ==
    IF o.t = "SupadataError" THEN supadata_error(o)
    ELSE IF o.t = "exc" THEN HTTPException(502, "Blad Supadata: ", <<>>, o.e)
    ELSE checked_content(PyOr(o.content, PyStr(<<>>)))

(***************************************************************************)
(* verify_image_with_reality_defender                                      *)
(***************************************************************************)
S_image_slash == <<"i","m","a","g","e","/">>

\* not (not file.content_type or not file.content_type.startswith("image/"))
IsImageType(content_type) ==
    Truthy(content_type) /\ StartsWith(content_type.s, S_image_slash)

\* the dict the handler returns for request_id and the provider's result
\* (a dict with a list of dicts under "models"), or the exception the
\* comprehension raises
detection_body(request_id, result) ==
    IF result.t # "dict" THEN Raise("AttributeError")
    ELSE LET models == Get(result, "models", PyList(<<>>))
         IN IF models.t \in {"none", "int"} THEN Raise("TypeError")
            ELSE IF models.t # "list" \/ \E n \in 1..Len(models.items) : models.items[n].t # "dict"
                 THEN Raise("AttributeError")
            ELSE Return(PyDict(
                   ("request_id" :> request_id)
                   @@ ("status" :> Get(result, "status", PyNone))
                   @@ ("score" :> Get(result, "score", PyNone))
                   @@ ("models" :> PyList([n \in 1..Len(models.items) |->
                          PyDict(("name" :> Get(models.items[n], "name", PyNone))
                                 @@ ("status" :> Get(models.items[n], "status", PyNone))
                                 @@ ("score" :> Get(models.items[n], "score", PyNone))
                                 @@ ("metadata" :> Get(models.items[n], "metadata", PyNone)))]))))

(***************************************************************************)
(* The provider side: how a JSON value is written as message content.      *)
(* A document is a sequence of <<name, value>> members in the order sent.  *)
(***************************************************************************)
RECURSIVE IntChars(_)
IntChars(n) ==
    LET d == CHOOSE c \in Digits : DigitVal(c) = n % 10
    IN IF n < 10 THEN <<d>> ELSE IntChars(n \div 10) \o <<d>>

RECURSIVE DumpsValue(_), DumpsItems(_)
DumpsItems(xs) ==
    IF xs = <<>> THEN <<>>
    ELSE IF Len(xs) = 1 THEN DumpsValue(xs[1])
    ELSE DumpsValue(xs[1]) \o <<",", " ">> \o DumpsItems(Tail(xs))

DumpsValue(v) ==
    CASE v.t = "str" -> <<"\"">> \o v.s \o <<"\"">>
      [] v.t = "int" -> IntChars(v.n)
      [] v.t = "none" -> <<"n","u","l","l">>
      [] v.t = "list" -> <<"[">> \o DumpsItems(v.items) \o <<"]">>

RECURSIVE DumpsMembers(_)
DumpsMembers(ms) ==
    IF ms = <<>> THEN <<>>
    ELSE LET one == <<"\"">> \o ms[1][1] \o <<"\"", ":", " ">> \o DumpsValue(ms[1][2])
         IN IF Len(ms) = 1 THEN one ELSE one \o <<",", " ">> \o DumpsMembers(Tail(ms))

DumpsObject(ms) == <<"{">> \o DumpsMembers(ms) \o <<"}">>

\* the object a document denotes: each name with its last value
ObjectOf(ms) ==
    PyDict([k \in {ms[n][1] : n \in 1..Len(ms)} |->
              ms[CHOOSE n \in 1..Len(ms) : ms[n][1] = k /\ \A m \in 1..Len(ms) : ms[m][1] = k => m <= n][2]])

(***************************************************************************)
(* Inputs: what callers send and what the providers answer                 *)
(***************************************************************************)
MaxExtraSources == 1
MaxModels == 2

K_extra == <<"c","o","n","f","i","d","e","n","c","e">>

\* n source strings, alternating
NSources(n) == [k \in 1..n |-> IF k % 2 = 1 THEN PyStr(<<"u">>) ELSE PyStr(<<"w">>)]

SourceLens == {0, 1, MaxSources} \cup ((MaxSources + 1)..(MaxSources + MaxExtraSources))

DecisionValues == {PyStr(S_tak), PyStr(S_nie), PyStr(<<"y","e","s">>), PyNone}

SourcesValues ==
    {PyList(NSources(n)) : n \in SourceLens}
    \cup {PyStr(<<"u">>), PyNone, PyList(<<PyInt(1)>>)}

AllRequired == {RequiredKeys[n] : n \in 1..Len(RequiredKeys)}

PresencePatterns ==
    {AllRequired, AllRequired \cup {K_extra}, {}, {K_decision}}
    \cup {AllRequired \ {k} : k \in AllRequired}

\* the members with a name in present, in schema order
Document(present, decision, sources) ==
    LET all == << <<K_decision, decision>>, <<K_summary, PyStr(<<"s">>)>>,
                  <<K_ai_explanatation, PyStr(<<"e">>)>>, <<K_sources, sources>>,
                  <<K_extra, PyInt(9)>> >>
        Keep(m) == m[1] \in present
    IN SelectSeq(all, Keep)

\* the same members, last first
Reversed(ms) == [n \in 1..Len(ms) |-> ms[Len(ms) + 1 - n]]

AllNames == K_decision \o <<" ">> \o K_summary \o <<" ">> \o K_ai_explanatation \o <<" ">> \o K_sources

\* message contents: text is what the provider sends, sent describes it
ObjectContent(ms) == [text |-> DumpsObject(ms), sent |-> [kind |-> "object", members |-> ms]]
ValueContent(v) == [text |-> DumpsValue(v), sent |-> [kind |-> "value", val |-> v]]
BrokenContent(cs) == [text |-> cs, sent |-> [kind |-> "broken"]]

OtherContents ==
    {ValueContent(v) : v \in {PyList(<<>>), PyList([n \in 1..Len(RequiredKeys) |-> PyStr(RequiredKeys[n])]),
                              PyStr(K_decision), PyStr(AllNames), PyInt(5), PyNone}}
    \cup {BrokenContent(cs) : cs \in {<<"a","b","c">>, <<"{">>,
             DumpsObject(Document(AllRequired, PyStr(S_tak), PyList(<<>>))) \o <<"x">>,
             LET d == DumpsObject(Document(AllRequired, PyStr(S_tak), PyList(<<>>)))
             IN SubSeq(d, 1, Len(d) - 1)}}

ContentsRich ==
    {ObjectContent(Document(p, d, src)) : p \in PresencePatterns, d \in DecisionValues, src \in SourcesValues}
    \cup {ObjectContent(Reversed(Document(AllRequired, d, PyList(NSources(2))))) : d \in DecisionValues}
    \cup {[text |-> <<" ">> \o c.text \o <<"\n">>, sent |-> c.sent] :
             c \in {ObjectContent(Document(AllRequired, PyStr(S_nie), PyList(<<>>)))}}
    \cup OtherContents

ContentsSmall ==
    {ObjectContent(Document(AllRequired, PyStr(S_tak), PyList(NSources(1)))),
     ObjectContent(Document(AllRequired, PyStr(S_nie), PyList(<<>>))),
     ObjectContent(Document(AllRequired \ {K_summary}, PyStr(S_tak), PyList(<<>>))),
     ObjectContent(Document(AllRequired, PyStr(<<"y","e","s">>), PyList(<<>>))),
     ObjectContent(Document(AllRequired, PyStr(S_tak), PyList(NSources(MaxSources + 1)))),
     ObjectContent(Document(AllRequired \cup {K_extra}, PyStr(S_tak), PyList(<<>>))),
     BrokenContent(<<"a","b","c">>),
     ValueContent(PyInt(5))}

\* resp.json() of a success response carrying content as the message content
Envelope(content) ==
    PyDict("choices" :> PyList(<<PyDict("message" :> PyDict("content" :> content))>>))

ProviderStatuses == {400, 401, 429, 500, 503}

\* the answers of the inference provider: a transport failure, an error
\* status, a success status without a JSON body, success bodies of other
\* shapes, and the contents of C as message content
InferenceOutcomes(C) ==
    {[t |-> "exc", e |-> "TimeoutException"]}
    \cup {[t |-> "resp", status_code |-> sc, is_json |-> TRUE,
           data |-> PyDict("error" :> PyStr(<<"e">>)), sent |-> [kind |-> "none"]] : sc \in ProviderStatuses}
    \cup {[t |-> "resp", status_code |-> 204, is_json |-> FALSE, data |-> PyNone, sent |-> [kind |-> "none"]]}
    \cup {[t |-> "resp", status_code |-> 200, is_json |-> TRUE, data |-> d, sent |-> [kind |-> "none"]] :
            d \in {PyDict(EmptyMap), PyList(<<>>), PyDict("choices" :> PyList(<<>>)),
                   PyDict("choices" :> PyList(<<PyDict(EmptyMap)>>)),
                   PyDict("choices" :> PyList(<<PyDict("message" :> PyNone)>>)),
                   Envelope(PyNone), Envelope(PyStr(<<>>)), Envelope(PyInt(5))}}
    \cup {[t |-> "resp", status_code |-> 200, is_json |-> TRUE,
           data |-> Envelope(PyStr(c.text)), sent |-> c.sent] : c \in C}

\* the answers the handlers are given in each specification
InferenceSmall == InferenceOutcomes(ContentsSmall)
InferenceRich == InferenceOutcomes(ContentsRich)

SupadataCodes == DOMAIN SupadataMessages \cup {403, 503}

\* the answers of the extraction provider
ExtractionOutcomes ==
    {[t |-> "resp", content |-> c] :
        c \in {PyNone, PyStr(<<>>), PyStr(<<" ">>), PyStr(<<"\n", " ", "\t">>),
               PyStr(<<"a">>), PyStr(<<" ", "a", " ", "b", "\n">>)}}
    \cup {[t |-> "SupadataError", status |-> PyInt(c), status_code |-> PyNone] : c \in SupadataCodes}
    \cup {[t |-> "SupadataError", status |-> PyNone, status_code |-> sc] :
             sc \in {PyNone, PyInt(404), PyInt(403)}}
    \cup {[t |-> "SupadataError", status |-> PyInt(0), status_code |-> PyInt(429)]}
    \cup {[t |-> "exc", e |-> "ConnectionError"]}

ContentTypes ==
    {PyNone, PyStr(<<>>), PyStr(S_image_slash \o <<"p","n","g">>), PyStr(S_image_slash),
     PyStr(<<"a","p","p","l","i","c","a","t","i","o","n","/","p","d","f">>),
     PyStr(<<"I","M","A","G","E","/","P","N","G">>), PyStr(<<"i","m","a","g","e">>)}

\* NamedTemporaryFile(delete=False) and tmp.write(await file.read())
SaveOutcomes == {"saved", "create_failed", "write_failed"}

UploadOutcomes ==
    {[t |-> "exc", e |-> "RealityDefenderError"]}
    \cup {[t |-> "resp", resp |-> r] :
            r \in {PyNone, PyDict(EmptyMap), PyDict("request_id" :> PyNone),
                   PyDict("request_id" :> PyStr(<<>>)), PyDict("request_id" :> PyStr(<<"r","1">>)),
                   PyDict(("request_id" :> PyStr(<<"r","2">>)) @@ ("media_id" :> PyStr(<<"m">>)))}}

ModelEntries ==
    {PyDict(("name" :> PyStr(<<"m","1">>)) @@ ("status" :> PyStr(<<"F","A","K","E">>))
            @@ ("score" :> PyInt(97)) @@ ("metadata" :> PyNone)),
     PyDict(("name" :> PyStr(<<"m","2">>)) @@ ("code" :> PyInt(3)))}

ModelLists == UNION {[1..n -> ModelEntries] : n \in 0..MaxModels}

ResultOutcomes ==
    {[t |-> "timeout"], [t |-> "exc", e |-> "RealityDefenderError"]}
    \cup {[t |-> "resp", resp |-> r] :
            r \in {PyDict(EmptyMap), PyDict("models" :> PyNone),
                   PyDict(("status" :> PyStr(<<"O","K">>)) @@ ("models" :> PyList(<<PyInt(1)>>)))}}
    \cup {[t |-> "resp", resp |-> PyDict(("status" :> PyStr(<<"F","A","K","E">>)) @@ ("score" :> PyInt(88))
                                         @@ ("models" :> PyList(ms)))] : ms \in ModelLists}

TextInputs == {<<"a">>, <<>>}

(***************************************************************************)
(* URLs: text is what the caller sends; sent describes it as the parts it  *)
(* was written from (host, port, path segments, query pairs, fragment)     *)
(***************************************************************************)
S_https == <<"h","t","t","p","s",":","/","/">>
ID1 == <<"a","B","3","-","_","x">>
ID2 == <<"z","9">>

RECURSIVE PathOf(_)
PathOf(segs) == IF segs = <<>> THEN <<>> ELSE <<"/">> \o Head(segs) \o PathOf(Tail(segs))

RECURSIVE PairsText(_)
PairsText(pairs) ==
    IF pairs = <<>> THEN <<>>
    ELSE LET one == pairs[1][1] \o <<"=">> \o pairs[1][2]
         IN IF Len(pairs) = 1 THEN one ELSE one \o <<"&">> \o PairsText(Tail(pairs))

QueryOf(pairs) == IF pairs = <<>> THEN <<>> ELSE <<"?">> \o PairsText(pairs)

Url(host, port, segs, pairs, frag) ==
    [text |-> S_https \o host \o port \o PathOf(segs) \o QueryOf(pairs) \o frag,
     sent |-> [kind |-> "url", host |-> host, port |-> port, segs |-> segs,
               pairs |-> pairs, frag |-> frag]]

RawUrl(cs) == [text |-> cs, sent |-> [kind |-> "raw"]]

S_example_com == <<"e","x","a","m","p","l","e",".","c","o","m">>

HostsRich ==
    YouTubeHosts \cup {S_youtu_be, S_example_com,
                       <<"W","W","W",".","Y","o","u","T","u","b","e",".","c","o","m">>,
                       <<"Y","o","u","t","u",".","B","E">>}

PortsRich == {<<>>, <<":","4","4","3">>}

SegsRich ==
    {<<>>, << <<>> >>, << <<"w","a","t","c","h">> >>,
     << <<"s","h","o","r","t","s">>, ID1 >>, << <<"s","h","o","r","t","s">>, ID1, <<"x">> >>,
     << <<"s","h","o","r","t","s">>, <<>> >>, << <<"s","h","o","r","t","s">> >>,
     << ID1 >>, << ID1, ID2 >>, << <<"n","e","w","s">> >>, << <<"e","m","b","e","d">>, ID1 >>}

PairsRich ==
    {<<>>, << <<<<"v">>, ID1>> >>, << <<<<"v">>, ID1>>, <<<<"t">>, <<"5">>>> >>,
     << <<<<"t">>, <<"5">>>>, <<<<"v">>, ID1>> >>, << <<<<"v">>, ID1>>, <<<<"v">>, ID2>> >>,
     << <<<<"v">>, <<>>>> >>, << <<<<"l","i","s","t">>, ID2>> >>}

UrlsRich ==
    {Url(h, pt, sg, pr, <<>>) : h \in HostsRich, pt \in PortsRich, sg \in SegsRich, pr \in PairsRich}
    \cup {Url(h, <<>>, sg, << <<<<"v">>, ID1>> >>, <<"#","v","=","z","9">>) :
             h \in {S_youtube_com, S_youtu_be}, sg \in {<< <<"w","a","t","c","h">> >>, << ID1 >>}}
    \cup {RawUrl(cs) : cs \in {<<>>, S_youtu_be \o <<"/">> \o ID1,
                               S_https \o <<"[","a">> \o S_watch \o <<"?","v","=">> \o ID1}}

UrlsSmall ==
    {Url(S_www_youtube_com, <<>>, << <<"w","a","t","c","h">> >>, << <<<<"v">>, ID1>> >>, <<>>),
     Url(S_youtu_be, <<>>, << ID1 >>, <<>>, <<>>),
     Url(S_youtube_com, <<>>, << <<"s","h","o","r","t","s">>, <<>> >>, <<>>, <<>>),
     Url(S_youtube_com, <<>>, << <<"w","a","t","c","h">> >>, <<>>, <<>>),
     Url(S_example_com, <<>>, << <<"n","e","w","s">> >>, <<>>, <<>>)}

(***************************************************************************)
(* The three handlers up to their first provider call                      *)
(***************************************************************************)
EnvNames == {"REALITY_DEFENDER_API_KEY", "SUPADATA_API_KEY", "XAI_API_KEY"}

\* verify_image_with_reality_defender, the two checks before the first try:
\* the HTTPException raised, or a Value to go on
verify_image_checks(content_type, environ) ==
    IF ~IsImageType(content_type)
    THEN HTTPException(415, "Nieobslugiwany typ pliku: ", <<>>, "")
    ELSE IF "REALITY_DEFENDER_API_KEY" \notin environ
    THEN HTTPException(500, "Brak konfiguracji: ustaw REALITY_DEFENDER_API_KEY", <<>>, "")
    ELSE Value(PyNone)

\* verify_text_disinfo, the check of the key
verify_text_checks(environ) ==
    IF "XAI_API_KEY" \notin environ
    THEN HTTPException(500, "Brak konfiguracji: ustaw XAI_API_KEY", <<>>, "")
    ELSE Value(PyNone)

\* a faulty variant: XAI_API_KEY is not checked before extraction
verify_link_checks_mut(environ) ==
    IF "SUPADATA_API_KEY" \notin environ
    THEN HTTPException(500, "Brak konfiguracji: ustaw SUPADATA_API_KEY", <<>>, "")
    ELSE Value(PyNone)

\* verify_link, the checks of the two keys
verify_link_checks(environ) ==
    IF "SUPADATA_API_KEY" \notin environ
    THEN HTTPException(500, "Brak konfiguracji: ustaw SUPADATA_API_KEY", <<>>, "")
    ELSE IF "XAI_API_KEY" \notin environ
    THEN HTTPException(500, "Brak konfiguracji: ustaw XAI_API_KEY", <<>>, "")
    ELSE Value(PyNone)

\* a faulty variant: only an absent request_id is refused, an empty one is polled
verify_image_after_upload_mut(o) ==
    IF o.t = "exc" THEN HTTPException(502, "Blad Reality Defender: ", <<>>, o.e)
    ELSE IF o.resp.t # "dict" THEN HTTPException(502, "Blad Reality Defender: ", <<>>, "AttributeError")
    ELSE IF Get(o.resp, "request_id", PyNone) = PyNone
         THEN HTTPException(502, "Reality Defender nie zwrocil request_id", <<>>, "")
    ELSE Value(Get(o.resp, "request_id", PyNone))

\* verify_image_with_reality_defender after rd.upload: the request id as
\* a Value, or the HTTPException the handler ends with
verify_image_after_upload(o) ==
    IF o.t = "exc" THEN HTTPException(502, "Blad Reality Defender: ", <<>>, o.e)
    ELSE IF o.resp.t # "dict" THEN HTTPException(502, "Blad Reality Defender: ", <<>>, "AttributeError")
    ELSE LET request_id == Get(o.resp, "request_id", PyNone)
         IN IF ~Truthy(request_id)
            THEN HTTPException(502, "Reality Defender nie zwrocil request_id", <<>>, "")
            ELSE Value(request_id)

\* verify_image_with_reality_defender after rd.get_result under wait_for
verify_image_after_result(request_id, o) ==
    IF o.t = "timeout"
    THEN HTTPException(504, "Przekroczono czas oczekiwania na wynik Reality Defender", <<>>, "")
    ELSE IF o.t = "exc" THEN HTTPException(502, "Blad Reality Defender: ", <<>>, o.e)
    ELSE LET b == detection_body(request_id, o.resp)
         IN IF b.kind = "raise" THEN HTTPException(502, "Blad Reality Defender: ", <<>>, b.e)
            ELSE b

(***************************************************************************)
(* State                                                                   *)
(***************************************************************************)
VARIABLES
    env,      \* the names os.getenv finds set
    pc,       \* where the request in flight stands
    req,      \* the request in flight
    calls,    \* the provider calls this request has made, in order
    tmp,      \* this request's temporary file
    got,      \* the provider answers this request has received, in order
    local,    \* the handler's local kept across a call: request_id, content
    result    \* what the handler ended with

vars == <<env, pc, req, calls, tmp, got, local, result>>

NoRequest == [endpoint |-> "none"]
\* created: NamedTemporaryFile made the file; exists: it is on disk;
\* bound: tmp_path was assigned
NoTmp == [created |-> FALSE, exists |-> FALSE, bound |-> FALSE]

S_tmp_path == <<"/","t","m","p","/","f">>

Init ==
    /\ env \in SUBSET EnvNames
    /\ pc = "idle"
    /\ req = NoRequest
    /\ calls = <<>>
    /\ tmp = NoTmp
    /\ got = <<>>
    /\ local = PyNone
    /\ result = NoResult

\* every key set
InitConfigured == Init /\ env = EnvNames

\* the finally block: remove tmp_path when it is bound and exists
Finally(t) == IF t.bound /\ t.exists THEN [t EXCEPT !.exists = FALSE] ELSE t

(***************************************************************************)
(* POST /api/verify-image                                                  *)
(***************************************************************************)
ImageRequest ==
    /\ pc = "idle"
    /\ \E ct \in ContentTypes :
         LET r == verify_image_checks(ct, env)
         IN /\ req' = [endpoint |-> "image", content_type |-> ct]
            /\ IF r.kind = "error"
               THEN pc' = "done" /\ result' = r
               ELSE pc' = "img_save" /\ result' = NoResult
    /\ UNCHANGED <<env, calls, tmp, got, local>>

\* the first try block: the file is made, then written
ImageSave ==
    /\ pc = "img_save"
    /\ \E o \in SaveOutcomes :
         /\ got' = Append(got, [t |-> o])
         /\ IF o = "saved"
            THEN /\ tmp' = [created |-> TRUE, exists |-> TRUE, bound |-> TRUE]
                 /\ calls' = Append(calls, [svc |-> "rd.upload", arg |-> PyStr(S_tmp_path)])
                 /\ pc' = "img_upload"
                 /\ result' = NoResult
            ELSE /\ tmp' = [created |-> o = "write_failed", exists |-> o = "write_failed", bound |-> FALSE]
                 /\ calls' = calls
                 /\ pc' = "done"
                 /\ result' = HTTPException(500, "Nie udalo sie zapisac pliku: ", <<>>, "OSError")
    /\ UNCHANGED <<env, req, local>>

ImageUploadReturns ==
    /\ pc = "img_upload"
    /\ \E o \in UploadOutcomes :
         LET r == verify_image_after_upload(o)
         IN /\ got' = Append(got, o)
            /\ IF r.kind = "value"
               THEN /\ local' = r.val
                    /\ calls' = Append(calls, [svc |-> "rd.get_result", arg |-> r.val])
                    /\ pc' = "img_result"
                    /\ UNCHANGED <<tmp, result>>
               ELSE /\ tmp' = Finally(tmp)
                    /\ result' = r
                    /\ pc' = "done"
                    /\ UNCHANGED <<local, calls>>
    /\ UNCHANGED <<env, req>>

ImageResultReturns ==
    /\ pc = "img_result"
    /\ \E o \in ResultOutcomes :
         /\ got' = Append(got, o)
         /\ result' = verify_image_after_result(local, o)
    /\ tmp' = Finally(tmp)
    /\ pc' = "done"
    /\ UNCHANGED <<env, req, calls, local>>

(***************************************************************************)
(* POST /api/verify-text                                                   *)
(***************************************************************************)
TextRequest ==
    /\ pc = "idle"
    /\ \E text \in TextInputs :
         LET r == verify_text_checks(env)
         IN /\ req' = [endpoint |-> "text", text |-> text]
            /\ IF r.kind = "error"
               THEN pc' = "done" /\ result' = r /\ calls' = calls
               ELSE /\ pc' = "txt_post"
                    /\ result' = NoResult
                    /\ calls' = Append(calls, [svc |-> "xai.chat", arg |-> PyStr(text)])
    /\ UNCHANGED <<env, tmp, got, local>>

TextResponse(O) ==
    /\ pc = "txt_post"
    /\ \E o \in O :
         /\ got' = Append(got, o)
         /\ result' = verify_text_after_post(o)
    /\ pc' = "done"
    /\ UNCHANGED <<env, req, calls, tmp, local>>

(***************************************************************************)
(* POST /api/verify-link                                                   *)
(***************************************************************************)
LinkRequest(U) ==
    /\ pc = "idle"
    /\ \E u \in U :
         LET r == verify_link_checks(env)
         IN /\ req' = [endpoint |-> "link", url |-> u.text, sent |-> u.sent]
            /\ IF r.kind = "error"
               THEN pc' = "done" /\ result' = r /\ calls' = calls
               ELSE /\ pc' = "lnk_extract"
                    /\ result' = NoResult
                    /\ calls' = Append(calls, extraction_call(u.text))
    /\ UNCHANGED <<env, tmp, got, local>>

LinkExtractReturns ==
    /\ pc = "lnk_extract"
    /\ \E o \in ExtractionOutcomes :
         LET r == verify_link_after_extract(o)
         IN /\ got' = Append(got, o)
            /\ IF r.kind = "value"
               THEN /\ local' = r.val
                    /\ calls' = Append(calls, [svc |-> "xai.chat", arg |-> r.val])
                    /\ pc' = "lnk_post"
                    /\ result' = NoResult
               ELSE /\ result' = r
                    /\ pc' = "done"
                    /\ UNCHANGED <<local, calls>>
    /\ UNCHANGED <<env, req, tmp>>

LinkResponse(O) ==
    /\ pc = "lnk_post"
    /\ \E o \in O :
         /\ got' = Append(got, o)
         /\ result' = verify_link_after_post(o)
    /\ pc' = "done"
    /\ UNCHANGED <<env, req, calls, tmp, local>>

\* the response is sent; the next request starts from a clean handler
Finish ==
    /\ pc = "done"
    /\ pc' = "idle"
    /\ req' = NoRequest
    /\ calls' = <<>>
    /\ tmp' = NoTmp
    /\ got' = <<>>
    /\ local' = PyNone
    /\ result' = NoResult
    /\ UNCHANGED env

Next ==
    \/ ImageRequest \/ ImageSave \/ ImageUploadReturns \/ ImageResultReturns
    \/ TextRequest \/ TextResponse(InferenceSmall)
    \/ LinkRequest(UrlsSmall) \/ LinkExtractReturns
    \/ LinkResponse(InferenceSmall)
    \/ Finish

Spec == Init /\ [][Next]_vars

\* the same handlers, with every verdict document as inference answer
NextJson ==
    \/ ImageRequest \/ ImageSave \/ ImageUploadReturns \/ ImageResultReturns
    \/ TextRequest \/ TextResponse(InferenceRich)
    \/ LinkRequest(UrlsSmall) \/ LinkExtractReturns
    \/ LinkResponse(InferenceRich)
    \/ Finish

SpecJson == InitConfigured /\ [][NextJson]_vars

\* the same handlers, with every URL shape as verify-link input
NextUrl ==
    \/ ImageRequest \/ ImageSave \/ ImageUploadReturns \/ ImageResultReturns
    \/ TextRequest \/ TextResponse(InferenceSmall)
    \/ LinkRequest(UrlsRich) \/ LinkExtractReturns
    \/ LinkResponse(InferenceSmall)
    \/ Finish

SpecUrl == InitConfigured /\ [][NextUrl]_vars

(***************************************************************************)
(* What the claims speak of, stated from the request and the answers the   *)
(* providers gave (not from what the handlers computed)                    *)
(***************************************************************************)
\* the inference provider has answered and the handler has ended
InferenceAnswered ==
    /\ pc = "done"
    /\ \/ req.endpoint = "text" /\ Len(got) = 1
       \/ req.endpoint = "link" /\ Len(got) = 2

\* the answer carried a non-empty string as message content
ContentAnswered ==
    InferenceAnswered /\ got[Len(got)].t = "resp" /\ got[Len(got)].sent.kind # "none"

\* what the provider wrote as message content
Sent == got[Len(got)].sent

\* the JSON value a parseable content denotes
SentValue(sent) == IF sent.kind = "object" THEN ObjectOf(sent.members) ELSE sent.val

\* the schema's checks on a JSON value v, in the order of the validator
LacksField(v, k) == v.t # "dict" \/ k \notin DOMAIN v.fields
LacksSomeField(v) == \E n \in 1..Len(RequiredKeys) : LacksField(v, RequiredKeys[n])
BadDecision(v) == v.fields[K_decision] \notin {PyStr(S_tak), PyStr(S_nie)}
BadSources(v) == v.fields[K_sources].t # "list" \/ Len(v.fields[K_sources].items) > 10

\* the first check that fails on the content sent, "none" when all pass
FirstFailingCheckOf(v) ==
    IF LacksSomeField(v) THEN "field"
    ELSE IF BadDecision(v) THEN "decision"
    ELSE IF BadSources(v) THEN "sources"
    ELSE "none"

FirstFailingCheck(sent) ==
    IF sent.kind = "broken" THEN "parse" ELSE FirstFailingCheckOf(SentValue(sent))

\* the check whose failure a result reports; an "analysis" error is put to
\* the check whose exception it carries
ReportedCheck(r) ==
    IF r.kind = "ok" THEN "none"
    ELSE IF r.detail.msg = "Model zwrocil niepoprawny JSON" \/ r.detail.e = "JSONDecodeError" THEN "parse"
    ELSE IF r.detail.msg = "Brak wymaganego pola: " \/ r.detail.e = "TypeError" THEN "field"
    ELSE IF r.detail.msg = "Pole 'decision' musi byc 'tak' lub 'nie'" \/ r.detail.e = "AttributeError"
         THEN "decision"
    ELSE IF r.detail.msg = "Pole 'sources' musi byc lista (max 10)" THEN "sources"
    ELSE "other"

\* C1: for every message content, in verify-text and in verify-link, the
\* checks run in the order parse, required fields, decision, sources; the
\* failure reported is that of the first check that fails, and a verdict is
\* returned only when every check passes.
C1_FirstFailureWins ==
    ContentAnswered => ReportedCheck(result) = FirstFailingCheck(Sent)

\* a document satisfies the verdict schema: the four required names, each
\* once, and no other; decision one of the two tokens; summary and
\* explanation strings; sources a list of at most 10 strings
SatisfiesSchema(ms) ==
    /\ Len(ms) = 4
    /\ {ms[n][1] : n \in 1..Len(ms)} = AllRequired
    /\ \A n \in 1..Len(ms) :
         CASE ms[n][1] = K_decision -> ms[n][2] \in {PyStr(S_tak), PyStr(S_nie)}
           [] ms[n][1] = K_sources ->
                /\ ms[n][2].t = "list"
                /\ Len(ms[n][2].items) <= 10
                /\ \A k \in 1..Len(ms[n][2].items) : ms[n][2].items[k].t = "str"
           [] OTHER -> ms[n][2].t = "str"

SchemaObjectAnswered ==
    ContentAnswered /\ Sent.kind = "object" /\ SatisfiesSchema(Sent.members)

\* C2: every JSON object that satisfies the verdict schema, sent as the
\* message content of a success response, is accepted and returned to the
\* caller equal to it field for field (sources = [] included).
C2_RoundTrip ==
    SchemaObjectAnswered => result = Return(ObjectOf(Sent.members))

C2_Witness ==
    /\ SchemaObjectAnswered
    /\ req.endpoint = "link"
    /\ result.kind = "ok"
    /\ result.body.fields[K_sources] = PyList(<<>>)
    /\ result.body.fields[K_decision] = PyStr(S_nie)

\* C3: every verdict returned by verify-text or verify-link has exactly the
\* four schema fields: content with an additional field is never returned.
C3_OnlySchemaFields ==
    (ContentAnswered /\ result.kind = "ok") => DOMAIN result.body.fields = AllRequired

(***************************************************************************)
(* The URL classifier, stated from the parts the URL was written from      *)
(***************************************************************************)
IsYouTubeHost(h) == Lower(h) \in YouTubeHosts
IsShortHost(h) == Lower(h) = S_youtu_be

\* the value of the first query parameter named v that has a value
QueryV(pairs) ==
    LET hits == {n \in 1..Len(pairs) : pairs[n][1] = <<"v">> /\ pairs[n][2] # <<>>}
    IN IF hits = {} THEN <<>> ELSE pairs[CHOOSE n \in hits : \A m \in hits : n <= m][2]

\* the video identifier the URL patterns give: /watch?v=ID, /shorts/ID on a
\* YouTube host, youtu.be/ID; <<>> when the URL matches none
PatternVideoId(u) ==
    IF IsYouTubeHost(u.host) /\ u.segs = << <<"w","a","t","c","h">> >> THEN QueryV(u.pairs)
    ELSE IF IsYouTubeHost(u.host) /\ Len(u.segs) >= 2 /\ u.segs[1] = <<"s","h","o","r","t","s">>
         THEN u.segs[2]
    ELSE IF IsShortHost(u.host) /\ Len(u.segs) >= 1 THEN u.segs[1]
    ELSE <<>>

\* verify-link has classified a URL written from parts
UrlClassified == req.endpoint = "link" /\ calls # <<>> /\ req.sent.kind = "url"

\* C4: for every URL with a YouTube host and /watch?v=ID or /shorts/ID, and
\* every youtu.be/ID, the classifier yields YouTube with videoId = ID
\* exactly (the transcript is asked for ID), and it never raises.
C4_VideoIdExact ==
    (UrlClassified /\ PatternVideoId(req.sent) # <<>>)
        => calls[1] = [svc |-> "supadata.youtube.transcript", arg |-> PyStr(PatternVideoId(req.sent))]

NoIdOnYouTubeHost ==
    /\ UrlClassified
    /\ IsYouTubeHost(req.sent.host) \/ IsShortHost(req.sent.host)
    /\ PatternVideoId(req.sent) = <<>>

ExtractionAnswered == req.endpoint = "link" /\ Len(got) >= 1

\* text that is absent or holds nothing but whitespace
Blank(c) == c.t = "none" \/ (c.t = "str" /\ \A n \in 1..Len(c.s) : c.s[n] \in Whitespace)

BlankExtracted == ExtractionAnswered /\ got[1].t = "resp" /\ Blank(got[1].content)

\* C6: when the extraction call succeeds with text that is empty after
\* trimming (or absent), the request fails with status 422 and the
\* inference provider is never called, on the transcript and scrape paths.
C6_EmptyContent ==
    BlankExtracted =>
        /\ pc = "done"
        /\ result.kind = "error" /\ result.status = 422
        /\ \A n \in 1..Len(calls) : calls[n].svc # "xai.chat"

C6_Witness ==
    /\ BlankExtracted
    /\ got[1].content = PyStr(<<"\n", " ", "\t">>)
    /\ calls[1].svc = "supadata.youtube.transcript"
    /\ result.kind = "error" /\ result.status = 422

ProviderFailed == ExtractionAnswered /\ got[1].t = "SupadataError"

\* the codes a provider error carries (none: absent)
CodesOf(e) == {c \in {e.status, e.status_code} : c.t = "int" /\ c.n # 0}

MappedCodes == {400, 401, 402, 404, 429, 206, 500}

\* C7 as claimed: a provider error surfaces with the mapped code and its
\* fixed message, and with 502 and the raw message for any other or absent
\* code; it never gives a verdict.
C7_DefaultIs502 ==
    ProviderFailed =>
        /\ pc = "done" /\ result.kind = "error"
        /\ \A c \in CodesOf(got[1]) :
             IF c.n \in MappedCodes
             THEN result.status = c.n /\ result.detail.msg = SupadataMessages[c.n]
             ELSE result.status = 502 /\ result.detail.e = "SupadataError"
        /\ CodesOf(got[1]) = {} => result.status = 502 /\ result.detail.e = "SupadataError"

\* C7 as amended: a mapped code surfaces as itself with its fixed message;
\* any other code surfaces as itself too, with the raw message; only an
\* absent code gives 502 with the raw message; never a verdict.
C7_CodePassesThrough ==
    ProviderFailed =>
        /\ pc = "done" /\ result.kind = "error"
        /\ \A c \in CodesOf(got[1]) :
             /\ result.status = c.n
             /\ IF c.n \in MappedCodes
                THEN result.detail.msg = SupadataMessages[c.n] /\ result.detail.e = ""
                ELSE result.detail.msg = "Supadata error: " /\ result.detail.e = "SupadataError"
        /\ CodesOf(got[1]) = {} =>
             /\ result.status = 502
             /\ result.detail.msg = "Supadata error: " /\ result.detail.e = "SupadataError"

C7_Witness ==
    /\ ProviderFailed
    /\ got[1].status = PyInt(403)
    /\ result.kind = "error" /\ result.status = 403

(***************************************************************************)
(* verify-text                                                             *)
(***************************************************************************)
TextFailed == req.endpoint = "text" /\ pc = "done" /\ result.kind = "error"

\* C8 as claimed: with the credential present every failure of verify-text
\* has status 502; the only other failure status is 500, for a missing
\* credential.
C8_AlwaysBadGateway ==
    TextFailed => result.status = IF "XAI_API_KEY" \in env THEN 502 ELSE 500

\* C8 as amended: a provider response with a status of 400 or more surfaces
\* with that status; every other failure of the inference or validation
\* stage has status 502; a missing credential has status 500.
C8_ProviderStatusPassesThrough ==
    TextFailed =>
        result.status =
            IF "XAI_API_KEY" \notin env THEN 500
            ELSE IF got[1].t = "resp" /\ got[1].status_code >= 400 THEN got[1].status_code
            ELSE 502

C8_Witness ==
    /\ TextFailed
    /\ Len(got) = 1 /\ got[1].t = "resp" /\ got[1].status_code = 400
    /\ result.status = 400

(***************************************************************************)
(* verify-media                                                            *)
(***************************************************************************)
\* C9: once the temporary file has been created it does not exist when the
\* request ends, on every exit path (a failed write included).
C9_TmpRemoved ==
    (req.endpoint = "image" /\ pc = "done" /\ tmp.created) => ~tmp.exists

\* a MIME type of the image family
ImageFamily(ct) == ct.t = "str" /\ Len(ct.s) >= 6 /\ SubSeq(ct.s, 1, 6) = <<"i","m","a","g","e","/">>

\* the credentials an endpoint requires
RequiredCredentials(endpoint) ==
    CASE endpoint = "image" -> {"REALITY_DEFENDER_API_KEY"}
      [] endpoint = "text" -> {"XAI_API_KEY"}
      [] endpoint = "link" -> {"SUPADATA_API_KEY", "XAI_API_KEY"}
      [] OTHER -> {}

BadMedia == req.endpoint = "image" /\ ~ImageFamily(req.content_type)

MissingCredential == ~BadMedia /\ ~(RequiredCredentials(req.endpoint) \subseteq env)

\* C10: no provider call is made (and no temporary file written) unless
\* the request's preconditions hold: a MIME type outside the image family
\* ends with 415, an absent required credential with 500, both before the
\* first provider call.
C10_PreconditionsFirst ==
    /\ BadMedia =>
         /\ pc = "done" /\ result.kind = "error" /\ result.status = 415
         /\ calls = <<>> /\ ~tmp.created
    /\ MissingCredential =>
         /\ pc = "done" /\ result.kind = "error" /\ result.status = 500
         /\ calls = <<>> /\ ~tmp.created

C10_Witness ==
    /\ req.endpoint = "link"
    /\ "SUPADATA_API_KEY" \in env /\ "XAI_API_KEY" \notin env
    /\ pc = "done" /\ result.kind = "error" /\ result.status = 500 /\ calls = <<>>
(***************************************************************************)
(* The two provider calls of verify-media                                  *)
(***************************************************************************)
\* the upload has been answered (got[1] is the saving of the file)
UploadAnswered == req.endpoint = "image" /\ Len(got) >= 2

\* the request identifier an upload answer assigns, PyNone when it has none
AssignedId(o) ==
    IF o.t = "resp" /\ o.resp.t = "dict" /\ "request_id" \in DOMAIN o.resp.fields
    THEN o.resp.fields["request_id"]
    ELSE PyNone

NonEmptyId(v) == v.t = "str" /\ v.s # <<>>

\* the per-model entries of a result answer, none when it carries no list
ProviderModels(o) ==
    IF "models" \in DOMAIN o.resp.fields THEN o.resp.fields["models"].items ELSE <<>>

\* what a returned entry keeps of a provider entry
Field(m, k) == IF k \in DOMAIN m.fields THEN m.fields[k] ELSE PyNone

EntryOf(m) ==
    PyDict([k \in {"name", "status", "score", "metadata"} |-> Field(m, k)])

DetectionReturned == req.endpoint = "image" /\ pc = "done" /\ result.kind = "ok"

\* C11: in verify-media the result is fetched only after the upload has
\* returned a non-empty request identifier, and with exactly that
\* identifier; an upload answer with no or an empty identifier ends the
\* request with 502 (no request id) and no fetch; every detection result
\* returned carries that non-empty identifier and the provider's per-model
\* entries in their order and number.
C11_PollWithAssignedId ==
    /\ \A n \in 1..Len(calls) :
         calls[n].svc = "rd.get_result" =>
            /\ n = 2 /\ calls[1].svc = "rd.upload"
            /\ UploadAnswered
            /\ NonEmptyId(AssignedId(got[2]))
            /\ calls[n].arg = AssignedId(got[2])
    /\ (UploadAnswered /\ got[2].t = "resp" /\ ~NonEmptyId(AssignedId(got[2]))) =>
         /\ pc = "done" /\ result.kind = "error" /\ result.status = 502
         /\ got[2].resp.t = "dict" => result.detail.msg = "Reality Defender nie zwrocil request_id"
         /\ \A n \in 1..Len(calls) : calls[n].svc # "rd.get_result"
    /\ DetectionReturned =>
         /\ NonEmptyId(AssignedId(got[2]))
         /\ result.body.fields["request_id"] = AssignedId(got[2])
         /\ Len(result.body.fields["models"].items) = Len(ProviderModels(got[3]))
         /\ \A n \in 1..Len(ProviderModels(got[3])) :
              result.body.fields["models"].items[n] = EntryOf(ProviderModels(got[3])[n])

C11_Witness ==
    /\ DetectionReturned
    /\ calls[2] = [svc |-> "rd.get_result", arg |-> PyStr(<<"r", "2">>)]
    /\ Len(ProviderModels(got[3])) = 2
    /\ ProviderModels(got[3])[1] # ProviderModels(got[3])[2]
    /\ result.body.fields["models"].items[2].fields["name"] = PyStr(<<"m", "1">>)
(***************************************************************************)
(* The stages of verify-link                                               *)
(***************************************************************************)
ExtractionServices == {"supadata.youtube.transcript", "supadata.web.scrape"}

ExtractionCallsMade == {n \in 1..Len(calls) : calls[n].svc \in ExtractionServices}

InferenceCallsMade == {n \in 1..Len(calls) : calls[n].svc = "xai.chat"}

\* the extraction stage gave text that is not blank
TextExtracted == ExtractionAnswered /\ got[1].t = "resp" /\ ~Blank(got[1].content)

\* the outcomes of the validation stage: a verdict or one of its failures
ValidationMessages ==
    {"Model zwrocil niepoprawny JSON", "Brak wymaganego pola: ",
     "Pole 'decision' musi byc 'tak' lub 'nie'", "Pole 'sources' musi byc lista (max 10)"}

ValidationRan ==
    pc = "done" /\ (result.kind = "ok" \/ (result.kind = "error" /\ result.detail.msg \in ValidationMessages))

\* C12: a verify-link request runs its stages in sequence, with no retry
\* and no substitution: at most one extraction call (transcript or scrape,
\* never both), at most one inference call and only after the extraction
\* returned text that is not empty, validation only on the content of a
\* success inference response; a failure of a stage ends the request and
\* no later stage is invoked.
C12_StagesInSequence ==
    req.endpoint = "link" =>
        /\ Cardinality(ExtractionCallsMade) <= 1
        /\ Cardinality(InferenceCallsMade) <= 1
        /\ Len(calls) = Cardinality(ExtractionCallsMade) + Cardinality(InferenceCallsMade)
        /\ Len(got) <= Len(calls)
        /\ \A n \in InferenceCallsMade : n = 2 /\ ExtractionCallsMade = {1} /\ TextExtracted
        /\ (ExtractionAnswered /\ ~TextExtracted) =>
               pc = "done" /\ result.kind = "error" /\ Len(calls) = 1 /\ Len(got) = 1
        /\ Len(got) = 2 => pc = "done" /\ result.kind \in {"ok", "error"}
        /\ ValidationRan =>
               /\ Len(got) = 2 /\ Len(calls) = 2
               /\ got[2].t = "resp" /\ got[2].status_code < 400

\* a transcript fetch has failed and nothing else was called
C12_Witness ==
    /\ req.endpoint = "link" /\ pc = "done"
    /\ calls = <<[svc |-> "supadata.youtube.transcript", arg |-> PyStr(ID1)]>>
    /\ Len(got) = 1 /\ got[1].t = "SupadataError"
    /\ result.kind = "error"
(***************************************************************************)
(* The verdict contract of the two textual endpoints                       *)
(***************************************************************************)
\* the inference answer a finished request was given
InferenceAnswer == got[Len(got)]

\* C13: verify-text and verify-link apply the same verdict contract: given
\* the same inference response (verify-link after an extraction that gave
\* text), both return the same verdict or both fail with the same status
\* and the same error kind and message, unparseable JSON and JSON that is
\* not an object included.
C13_SameContract ==
    /\ (InferenceAnswered /\ req.endpoint = "link") => result = verify_text_after_post(InferenceAnswer)
    /\ (InferenceAnswered /\ req.endpoint = "text") => result = verify_link_after_post(InferenceAnswer)
=============================================================================
